---------------------------- MODULE Spec2Model ----------------------------
(***************************************************************************)
(* Model of the answer-application and session-state engine of             *)
(* twitch-plays-crosswords (src/web/rooms.py, src/crosswords/puzzle.py).   *)
(*                                                                         *)
(* Strings are sequences of one-character strings, so that parse_clue and  *)
(* parse_answer are computed character by character as the code does.      *)
(* Times are integer ticks, TicksPerSec ticks to the second, so that       *)
(* int(delta.total_seconds()) is a real truncation.                        *)
(***************************************************************************)
EXTENDS Integers, Sequences, FiniteSets, TLC

(***************************************************************************)
(* Bounds of the model.                                                    *)
(***************************************************************************)
\* clock readings are 0..MaxTime ticks
MaxTime == 3
\* total_time_secs is kept within -MaxTotal..MaxTotal by the guards
MaxTotal == 2
\* resolution of the clock: ticks per second
TicksPerSec == 2

Times == 0..MaxTime

\* Python's None, for a cell value (a block) and for last_start_time.
NoneCell == <<"None">>
NoneTime == -1

(***************************************************************************)
(* Character classes used by str.isspace, str.strip, str.lower and int().  *)
(***************************************************************************)
isspace(c) == c \in {" ", "\t"}

IsDigit(c) == c \in {"0", "1", "2", "3", "4", "5", "6", "7", "8", "9"}

DigitVal(c) ==
  CASE c = "0" -> 0 [] c = "1" -> 1 [] c = "2" -> 2 [] c = "3" -> 3
    [] c = "4" -> 4 [] c = "5" -> 5 [] c = "6" -> 6 [] c = "7" -> 7
    [] c = "8" -> 8 [] c = "9" -> 9

lower(c) ==
  CASE c = "A" -> "a" [] c = "B" -> "b" [] c = "D" -> "d" [] c = "X" -> "x"
    [] OTHER -> c

RECURSIVE lstrip(_)
lstrip(s) == IF s # <<>> /\ isspace(Head(s)) THEN lstrip(Tail(s)) ELSE s

RECURSIVE rstrip(_)
rstrip(s) ==
  IF s # <<>> /\ isspace(s[Len(s)]) THEN rstrip(SubSeq(s, 1, Len(s) - 1)) ELSE s

strip(s) == rstrip(lstrip(s))

(***************************************************************************)
(* int(s) of Python 3 on a str: surrounding whitespace is ignored, one     *)
(* optional sign, then decimal digits, with single underscores allowed     *)
(* between digits.  ok = FALSE stands for ValueError.                      *)
(***************************************************************************)
RECURSIVE DigitsValue(_, _)
DigitsValue(s, acc) ==
  IF s = <<>> THEN acc
  ELSE IF Head(s) = "_" THEN DigitsValue(Tail(s), acc)
  ELSE DigitsValue(Tail(s), 10 * acc + DigitVal(Head(s)))

int(s) ==
  LET t      == strip(s)
      signed == t # <<>> /\ Head(t) \in {"+", "-"}
      body   == IF signed THEN Tail(t) ELSE t
      valid  == /\ body # <<>>
                /\ \A i \in 1..Len(body) :
                     \/ IsDigit(body[i])
                     \/ /\ body[i] = "_"
                        /\ 1 < i /\ i < Len(body)
                        /\ IsDigit(body[i - 1]) /\ IsDigit(body[i + 1])
      mag    == DigitsValue(body, 0)
  IN  IF valid
        THEN [ok |-> TRUE, value |-> IF signed /\ Head(t) = "-" THEN 0 - mag ELSE mag]
        ELSE [ok |-> FALSE, value |-> 0]

(***************************************************************************)
(* parse_clue: ok = FALSE stands for the result (None, None).              *)
(***************************************************************************)
NoClue == [ok |-> FALSE, number |-> 0, direction |-> "None"]

parse_clue(clue) ==
  LET s == strip(clue) IN
  IF Len(s) = 0 THEN NoClue
  ELSE LET n         == int(SubSeq(s, 1, Len(s) - 1))
           direction == lower(s[Len(s)])
       IN  IF ~n.ok THEN NoClue
           ELSE IF direction # "a" /\ direction # "d" THEN NoClue
           ELSE [ok |-> TRUE, number |-> n.value, direction |-> direction]

(***************************************************************************)
(* parse_answer: the loop over the characters of the answer, carrying the  *)
(* list of cells built so far and the inParens flag.                       *)
(***************************************************************************)
\* what parse_answer is taken to return when cells[-1] raises IndexError
IndexError == <<(<<"IndexError">>)>>

\* parse_answer_loop with the whitespace test moved below the tests of
\* inParens: whitespace inside a group is kept in the cell.
RECURSIVE parse_answer_loop_KeepsSpaces(_, _, _, _)
parse_answer_loop_KeepsSpaces(answer, i, cells, inParens) ==
  IF i > Len(answer) THEN cells
  ELSE LET c == answer[i] IN
    IF inParens /\ c = ")"
      THEN parse_answer_loop_KeepsSpaces(answer, i + 1, cells, FALSE)
    ELSE IF inParens
      THEN parse_answer_loop_KeepsSpaces(answer, i + 1,
             [cells EXCEPT ![Len(cells)] = Append(@, c)], TRUE)
    ELSE IF isspace(c)
      THEN parse_answer_loop_KeepsSpaces(answer, i + 1, cells, inParens)
    ELSE IF c = "("
      THEN parse_answer_loop_KeepsSpaces(answer, i + 1, Append(cells, <<>>), TRUE)
    ELSE parse_answer_loop_KeepsSpaces(answer, i + 1,
             Append(cells, IF c # "." THEN <<c>> ELSE <<>>), FALSE)

RECURSIVE parse_answer_loop(_, _, _, _)
parse_answer_loop(answer, i, cells, inParens) ==
  IF i > Len(answer) THEN cells
  ELSE LET c == answer[i] IN
    IF isspace(c) THEN parse_answer_loop(answer, i + 1, cells, inParens)
    ELSE IF inParens /\ c = ")"
      THEN parse_answer_loop(answer, i + 1, cells, FALSE)
    ELSE IF inParens /\ cells = <<>>
      THEN IndexError
    ELSE IF inParens
      THEN parse_answer_loop(answer, i + 1,
             [cells EXCEPT ![Len(cells)] = Append(@, c)], TRUE)
    ELSE IF c = "("
      THEN parse_answer_loop(answer, i + 1, Append(cells, <<>>), TRUE)
    ELSE parse_answer_loop(answer, i + 1,
             Append(cells, IF c # "." THEN <<c>> ELSE <<>>), FALSE)

parse_answer(answer) == parse_answer_loop(answer, 1, <<>>, FALSE)

(***************************************************************************)
(* The puzzle being solved: a 2 x 2 grid with a block at (x, y) = (1, 1)   *)
(* and a rebus cell at (1, 0).                                             *)
(*                                                                         *)
(*        x=0   x=1                                                        *)
(*   y=0   A    AB        1-across: (0,0) (1,0)                            *)
(*   y=1   B    block     1-down:   (0,0) (0,1)                            *)
(***************************************************************************)
Puzzle ==
  [rows |-> 2,
   cols |-> 2,
   cells |-> (0 :> (0 :> <<"A">> @@ 1 :> <<"A", "B">>)) @@
             (1 :> (0 :> <<"B">> @@ 1 :> NoneCell)),
   cell_clue_numbers |-> (0 :> (0 :> 1 @@ 1 :> 0)) @@
                         (1 :> (0 :> 0 @@ 1 :> 0)),
   across_clues |-> {1},
   down_clues |-> {1}]

(***************************************************************************)
(* puzzles.get_answer_cells: the ordered (x, y) coordinates of the cells   *)
(* of an answer; the empty sequence when the puzzle has no such clue.      *)
(***************************************************************************)
RECURSIVE walk_cells(_, _, _, _, _)
walk_cells(puzzle, x, y, dx, dy) ==
  IF x < puzzle.cols /\ y < puzzle.rows /\ puzzle.cells[y][x] # NoneCell
    THEN <<(<<x, y>>)>> \o walk_cells(puzzle, x + dx, y + dy, dx, dy)
    ELSE <<>>

get_answer_cells(puzzle, num, direction) ==
  LET clues  == IF direction = "a" THEN puzzle.across_clues ELSE puzzle.down_clues
      starts == {c \in (0..(puzzle.cols - 1)) \X (0..(puzzle.rows - 1)) :
                   puzzle.cell_clue_numbers[c[2]][c[1]] = num}
  IN  IF num \notin clues \/ starts = {} THEN <<>>
      ELSE LET c == CHOOSE c \in starts : TRUE
           IN  IF direction = "a" THEN walk_cells(puzzle, c[1], c[2], 1, 0)
                                  ELSE walk_cells(puzzle, c[1], c[2], 0, 1)

(***************************************************************************)
(* Room: the fields of the attrs class.  The puzzle field is the constant  *)
(* Puzzle and is left out of the record.                                   *)
(***************************************************************************)
States == {"created", "paused", "playing", "complete"}

\* int(delta.total_seconds()), delta a difference of clock readings in ticks:
\* Python's int() of a float truncates toward zero.
total_seconds_int(delta) ==
  IF delta >= 0 THEN delta \div TicksPerSec ELSE 0 - ((0 - delta) \div TicksPerSec)

\* write_cells with the allow_clearing test dropped: every value is written.
RECURSIVE write_cells_AlwaysWrites(_, _, _, _, _)
write_cells_AlwaysWrites(cells, answer, coordinates, allow_clearing, i) ==
  IF i > Len(answer) \/ i > Len(coordinates) THEN cells
  ELSE write_cells_AlwaysWrites(
         [cells EXCEPT ![coordinates[i][2]][coordinates[i][1]] = answer[i]],
         answer, coordinates, allow_clearing, i + 1)

\* The loop that writes the answer values into the cells; zip stops at the
\* shorter of the two sequences.
RECURSIVE write_cells(_, _, _, _, _)
write_cells(cells, answer, coordinates, allow_clearing, i) ==
  IF i > Len(answer) \/ i > Len(coordinates) THEN cells
  ELSE LET value == answer[i]
           x     == coordinates[i][1]
           y     == coordinates[i][2]
       IN  write_cells(
             IF allow_clearing \/ value # <<>>
               THEN [cells EXCEPT ![y][x] = value]
               ELSE cells,
             answer, coordinates, allow_clearing, i + 1)

\* all(room.cells[y][x] != "" for (x, y) in get_answer_cells(puzzle, num, d))
all_cells_filled(cells, num, direction) ==
  LET coordinates == get_answer_cells(Puzzle, num, direction)
  IN  \A i \in 1..Len(coordinates) :
        cells[coordinates[i][2]][coordinates[i][1]] # <<>>

\* clues_filled that only ever sets a flag and never resets it.
clues_filled_OnlySets(filled, cells, direction) ==
  LET clues == IF direction = "a" THEN Puzzle.across_clues ELSE Puzzle.down_clues
  IN  [num \in (DOMAIN filled) \cup clues |->
         IF num \in clues
           THEN (num \in DOMAIN filled /\ filled[num])
                  \/ all_cells_filled(cells, num, direction)
           ELSE filled[num]]

\* The two loops that update the filled dicts: every clue of the puzzle is
\* recomputed, any other key of the dict is kept.
clues_filled(filled, cells, direction) ==
  LET clues == IF direction = "a" THEN Puzzle.across_clues ELSE Puzzle.down_clues
  IN  [num \in (DOMAIN filled) \cup clues |->
         IF num \in clues THEN all_cells_filled(cells, num, direction)
                          ELSE filled[num]]

\* check_complete that forgets to clear last_start_time.
check_complete_KeepsStart(room, now) ==
  IF room.cells = Puzzle.cells
    THEN IF room.last_start_time = NoneTime
           THEN [result |-> "raise", room |-> room, clock |-> TRUE]
           ELSE [result |-> "room",
                 room |-> [room EXCEPT
                   !.play_pause_state = "complete",
                   !.total_time_secs =
                      room.total_time_secs
                        + total_seconds_int(now - room.last_start_time)],
                 clock |-> TRUE]
    ELSE [result |-> "room", room |-> room, clock |-> FALSE]

\* check_complete that stops the timer without adding the elapsed time.
check_complete_DropsElapsed(room, now) ==
  IF room.cells = Puzzle.cells
    THEN IF room.last_start_time = NoneTime
           THEN [result |-> "raise", room |-> room, clock |-> TRUE]
           ELSE [result |-> "room",
                 room |-> [room EXCEPT
                   !.play_pause_state = "complete",
                   !.last_start_time = NoneTime],
                 clock |-> TRUE]
    ELSE [result |-> "room", room |-> room, clock |-> FALSE]

\* The completion check of apply_answer, on the room whose cells and flags
\* have been updated.  datetime.now() - None raises TypeError.
check_complete(room, now) ==
  IF room.cells = Puzzle.cells
    THEN IF room.last_start_time = NoneTime
           THEN [result |-> "raise", room |-> room, clock |-> TRUE]
           ELSE [result |-> "room",
                 room |-> [room EXCEPT
                   !.play_pause_state = "complete",
                   !.last_start_time = NoneTime,
                   !.total_time_secs =
                      room.total_time_secs
                        + total_seconds_int(now - room.last_start_time)],
                 clock |-> TRUE]
    ELSE [result |-> "room", room |-> room, clock |-> FALSE]

\* apply_answer that rejects only an answer longer than the clue: zip then
\* writes a shorter answer into the first cells.
apply_answer_ShortAnswerOk(room, clue, answer, allow_clearing, now) ==
  LET c == parse_clue(clue) IN
  IF ~c.ok THEN [result |-> "None", room |-> room, clock |-> FALSE]
  ELSE
    LET values      == parse_answer(answer)
        coordinates == get_answer_cells(Puzzle, c.number, c.direction)
    IN
    IF Len(values) > Len(coordinates)
      THEN [result |-> "None", room |-> room, clock |-> FALSE]
      ELSE
        LET cells == write_cells(room.cells, values, coordinates, allow_clearing, 1)
        IN  check_complete(
              [room EXCEPT
                 !.cells = cells,
                 !.across_clues_filled = clues_filled(@, cells, "a"),
                 !.down_clues_filled = clues_filled(@, cells, "d")],
              now)

\* apply_answer without its final set_room: result "None" is the early
\* return, "raise" an exception that leaves through the caller, "room" the
\* return of the room that has been stored.  room is the in-memory object,
\* whose cells and dicts are mutated in place.
apply_answer(room, clue, answer, allow_clearing, now) ==
  LET c == parse_clue(clue) IN
  IF ~c.ok THEN [result |-> "None", room |-> room, clock |-> FALSE]
  ELSE
    LET values      == parse_answer(answer)
        coordinates == get_answer_cells(Puzzle, c.number, c.direction)
    IN
    IF Len(values) # Len(coordinates)
      THEN [result |-> "None", room |-> room, clock |-> FALSE]
      ELSE
        LET cells == write_cells(room.cells, values, coordinates, allow_clearing, 1)
        IN  check_complete(
              [room EXCEPT
                 !.cells = cells,
                 !.across_clues_filled = clues_filled(@, cells, "a"),
                 !.down_clues_filled = clues_filled(@, cells, "d")],
              now)

\* remove_incorrect without the comparison: every filled cell is blanked.
remove_incorrect_ClearsAll(cells) ==
  [y \in 0..(Puzzle.rows - 1) |->
     [x \in 0..(Puzzle.cols - 1) |->
        IF cells[y][x] # NoneCell /\ cells[y][x] # <<>>
          THEN <<>>
          ELSE cells[y][x]]]

\* remove_incorrect working answer by answer: a filled cell is blanked when
\* some answer through it does not read as the solution.
remove_incorrect_ByAnswer(cells) ==
  LET wrong(num, direction) ==
        LET coordinates == get_answer_cells(Puzzle, num, direction)
        IN  \E i \in 1..Len(coordinates) :
              cells[coordinates[i][2]][coordinates[i][1]]
                # Puzzle.cells[coordinates[i][2]][coordinates[i][1]]
      through(num, direction, x, y) ==
        LET coordinates == get_answer_cells(Puzzle, num, direction)
        IN  \E i \in 1..Len(coordinates) : coordinates[i] = <<x, y>>
  IN
  [y \in 0..(Puzzle.rows - 1) |->
     [x \in 0..(Puzzle.cols - 1) |->
        IF /\ cells[y][x] # NoneCell /\ cells[y][x] # <<>>
           /\ \/ \E n \in Puzzle.across_clues :
                   through(n, "a", x, y) /\ wrong(n, "a")
              \/ \E n \in Puzzle.down_clues :
                   through(n, "d", x, y) /\ wrong(n, "d")
          THEN <<>>
          ELSE cells[y][x]]]

\* The loop of clear_incorrect_cells over every cell; None (a block) and ""
\* are falsy.
remove_incorrect(cells) ==
  [y \in 0..(Puzzle.rows - 1) |->
     [x \in 0..(Puzzle.cols - 1) |->
        IF cells[y][x] # NoneCell /\ cells[y][x] # <<>>
             /\ cells[y][x] # Puzzle.cells[y][x]
          THEN <<>>
          ELSE cells[y][x]]]

clear_incorrect_cells(room) ==
  LET cells == remove_incorrect(room.cells)
  IN  [room EXCEPT
         !.cells = cells,
         !.across_clues_filled = clues_filled(@, cells, "a"),
         !.down_clues_filled = clues_filled(@, cells, "d")]

\* play_pause whose first test is state != "playing": a complete room restarts.
play_pause_Restarts(room, now) ==
  LET state == room.play_pause_state IN
  IF state # "playing"
    THEN [result |-> "room",
          room |-> [room EXCEPT !.play_pause_state = "playing",
                                !.last_start_time = now],
          clock |-> TRUE]
  ELSE IF room.last_start_time = NoneTime
    THEN [result |-> "raise", room |-> room, clock |-> TRUE]
    ELSE [result |-> "room",
          room |-> [room EXCEPT
            !.play_pause_state = "paused",
            !.last_start_time = NoneTime,
            !.total_time_secs =
               @ + total_seconds_int(now - room.last_start_time)],
          clock |-> TRUE]

\* play_pause that rounds the elapsed time down instead of truncating it.
play_pause_Floors(room, now) ==
  LET state == room.play_pause_state IN
  IF state = "created" \/ state = "paused"
    THEN [result |-> "room",
          room |-> [room EXCEPT !.play_pause_state = "playing",
                                !.last_start_time = now],
          clock |-> TRUE]
  ELSE IF state = "playing"
    THEN IF room.last_start_time = NoneTime
           THEN [result |-> "raise", room |-> room, clock |-> TRUE]
           ELSE [result |-> "room",
                 room |-> [room EXCEPT
                   !.play_pause_state = "paused",
                   !.last_start_time = NoneTime,
                   !.total_time_secs =
                      @ + ((now - room.last_start_time) \div TicksPerSec)],
                 clock |-> TRUE]
  ELSE [result |-> "room", room |-> room, clock |-> FALSE]

\* play_pause without its final set_room.
play_pause(room, now) ==
  LET state == room.play_pause_state IN
  IF state = "created" \/ state = "paused"
    THEN [result |-> "room",
          room |-> [room EXCEPT !.play_pause_state = "playing",
                                !.last_start_time = now],
          clock |-> TRUE]
  ELSE IF state = "playing"
    THEN IF room.last_start_time = NoneTime
           THEN [result |-> "raise", room |-> room, clock |-> TRUE]
           ELSE [result |-> "room",
                 room |-> [room EXCEPT
                   !.play_pause_state = "paused",
                   !.last_start_time = NoneTime,
                   !.total_time_secs =
                      @ + total_seconds_int(now - room.last_start_time)],
                 clock |-> TRUE]
  ELSE [result |-> "room", room |-> room, clock |-> FALSE]

(***************************************************************************)
(* The stored form of a room.  json.dumps turns the int keys of the two    *)
(* filled dicts into strings and from_json turns them back; the start time *)
(* is stored in ISO-8601 form, None as null.                               *)
(***************************************************************************)
JsonNull == <<"null">>

str(n) == <<"str", n>>

isoformat(t) == <<"iso", t>>

dateutil_parse(s) == s[2]

to_json(r) ==
  [play_pause_state |-> r.play_pause_state,
   cells |-> r.cells,
   across_clues_filled |->
     [k \in {str(n) : n \in DOMAIN r.across_clues_filled} |->
        r.across_clues_filled[k[2]]],
   down_clues_filled |->
     [k \in {str(n) : n \in DOMAIN r.down_clues_filled} |->
        r.down_clues_filled[k[2]]],
   last_start_time |->
     IF r.last_start_time # NoneTime THEN isoformat(r.last_start_time)
                                     ELSE JsonNull,
   total_time_secs |-> r.total_time_secs]

from_json(d) ==
  [play_pause_state |-> d.play_pause_state,
   cells |-> d.cells,
   across_clues_filled |->
     [n \in {k[2] : k \in DOMAIN d.across_clues_filled} |->
        d.across_clues_filled[str(n)]],
   down_clues_filled |->
     [n \in {k[2] : k \in DOMAIN d.down_clues_filled} |->
        d.down_clues_filled[str(n)]],
   last_start_time |->
     IF d.last_start_time # JsonNull THEN dateutil_parse(d.last_start_time)
                                     ELSE NoneTime,
   total_time_secs |-> d.total_time_secs]

(***************************************************************************)
(* Inputs of the requests.                                                 *)
(***************************************************************************)
\* clue references: "1a", " 1D ", "2d" (no such clue), "1x", "a", ""
Clues ==
  { <<"1", "a">>, <<" ", "1", "D", " ">>, <<"2", "d">>,
    <<"1", "x">>, <<"a">>, <<>> }

\* answers: "A(AB)", "AB", ".B", "B.", "()A", "", " ", "A"
Answers ==
  { <<"A", "(", "A", "B", ")">>, <<"A", "B">>, <<".", "B">>, <<"B", ".">>,
    <<"(", ")", "A">>, <<>>, <<" ">>, <<"A">> }

\* the requests that can be in flight
Procs == {"p1", "p2"}

(***************************************************************************)
(* State.                                                                  *)
(*   store  the value redis holds under the key of the room (a JSON form)  *)
(*   room   per request, the in-memory Room object it works on             *)
(*   pc     per request, "idle" or "loaded" (get_room has returned)        *)
(*   ret    per request, the operation it ran last, with its arguments,    *)
(*          the clock reading it took (NoneTime if none) and how it ended  *)
(*   intervals  a record of the playing intervals of the stored room, kept *)
(*          beside the program: the reading at which the open interval     *)
(*          started (NoneTime if none is open) and the whole seconds of    *)
(*          the intervals closed so far                                    *)
(*   input, output  the argument and the result of a call of one of the    *)
(*          two parsing functions on its own                               *)
(***************************************************************************)
VARIABLES store, room, pc, ret, intervals, input, output

vars == <<store, room, pc, ret, intervals, input, output>>

\* A room as it is created: no cell filled, the timer never started.
NewRoom ==
  [play_pause_state |-> "created",
   cells |-> [y \in 0..(Puzzle.rows - 1) |->
               [x \in 0..(Puzzle.cols - 1) |->
                  IF Puzzle.cells[y][x] = NoneCell THEN NoneCell ELSE <<>>]],
   across_clues_filled |-> [n \in Puzzle.across_clues |-> FALSE],
   down_clues_filled |-> [n \in Puzzle.down_clues |-> FALSE],
   last_start_time |-> NoneTime,
   total_time_secs |-> 0]

NoRet ==
  [op |-> "none", result |-> "none", clue |-> <<>>, answer |-> <<>>,
   allow_clearing |-> FALSE, now |-> NoneTime]

\* no parsing function called on its own
NoInput == [fn |-> "none", text |-> <<>>]

NoOutput == [done |-> FALSE, clue |-> NoClue, cells |-> <<>>]

InitRoom ==
  /\ store = to_json(NewRoom)
  /\ room = [p \in Procs |-> NewRoom]
  /\ pc = [p \in Procs |-> "idle"]
  /\ ret = [p \in Procs |-> NoRet]
  /\ intervals = [open |-> NoneTime, secs |-> 0]

Init ==
  /\ InitRoom
  /\ input = NoInput
  /\ output = NoOutput

\* total_time_secs is an unbounded int; the model keeps it in a window.
TotalInBounds(r) ==
  r.total_time_secs <= MaxTotal /\ r.total_time_secs >= 0 - MaxTotal

\* get_room: the caller of every operation loads the room from the store.
GetRoom(p) ==
  /\ pc[p] = "idle"
  /\ room' = [room EXCEPT ![p] = from_json(store)]
  /\ pc' = [pc EXCEPT ![p] = "loaded"]
  /\ ret' = [ret EXCEPT ![p] = NoRet]
  /\ UNCHANGED <<store, intervals, input, output>>

\* the whole seconds of a difference d of clock readings, truncated toward
\* zero: the q with d = q * TicksPerSec + r, r of the sign of d, |r| < TicksPerSec
WholeSeconds(d) ==
  CHOOSE q \in (0 - MaxTime)..MaxTime :
    \E r \in (1 - TicksPerSec)..(TicksPerSec - 1) :
      /\ d = q * TicksPerSec + r
      /\ (d >= 0 => r >= 0)
      /\ (d <= 0 => r <= 0)

\* The record of the playing intervals after a room in state `after` is
\* stored over one in state `before` by an operation that read the clock at
\* now: an interval opens when the stored room starts playing and closes,
\* with its whole seconds added, when the stored room stops playing.
LogInterval(log, before, after, now) ==
  IF before # "playing" /\ after = "playing"
    THEN [open |-> now, secs |-> log.secs]
  ELSE IF before = "playing" /\ after # "playing" /\ log.open # NoneTime
    THEN [open |-> NoneTime, secs |-> log.secs + WholeSeconds(now - log.open)]
  ELSE log

\* Finish with a store that merges: play_pause keeps the cells and the flags
\* the store holds instead of storing the ones it loaded.
Finish_MergesCells(p, op, r, clue, answer, allow_clearing, now) ==
  LET merged ==
        IF op = "play_pause"
          THEN [r.room EXCEPT
                  !.cells = from_json(store).cells,
                  !.across_clues_filled = from_json(store).across_clues_filled,
                  !.down_clues_filled = from_json(store).down_clues_filled]
          ELSE r.room
  IN
  /\ TotalInBounds(merged)
  /\ intervals' =
       IF r.result = "room"
         THEN LogInterval(intervals, from_json(store).play_pause_state,
                          merged.play_pause_state, now)
         ELSE intervals
  /\ UNCHANGED <<input, output>>
  /\ room' = [room EXCEPT ![p] = merged]
  /\ store' = IF r.result = "room" THEN to_json(merged) ELSE store
  /\ pc' = [pc EXCEPT ![p] = "idle"]
  /\ ret' = [ret EXCEPT ![p] =
       [op |-> op, result |-> r.result, clue |-> clue, answer |-> answer,
        allow_clearing |-> allow_clearing,
        now |-> IF r.clock THEN now ELSE NoneTime]]

\* The end of an operation: set_room when the operation got that far.
Finish(p, op, r, clue, answer, allow_clearing, now) ==
  /\ TotalInBounds(r.room)
  /\ intervals' =
       IF r.result = "room"
         THEN LogInterval(intervals, from_json(store).play_pause_state,
                          r.room.play_pause_state, now)
         ELSE intervals
  /\ UNCHANGED <<input, output>>
  /\ room' = [room EXCEPT ![p] = r.room]
  /\ store' = IF r.result = "room" THEN to_json(r.room) ELSE store
  /\ pc' = [pc EXCEPT ![p] = "idle"]
  /\ ret' = [ret EXCEPT ![p] =
       [op |-> op, result |-> r.result, clue |-> clue, answer |-> answer,
        allow_clearing |-> allow_clearing,
        now |-> IF r.clock THEN now ELSE NoneTime]]

\* apply_answer called with a clue, an answer and a clock reading of the
\* given sets
ApplyAnswerWith(p, clues, answers, times) ==
  /\ pc[p] = "loaded"
  /\ \E clue \in clues, answer \in answers, allow_clearing \in BOOLEAN,
        now \in times :
       Finish(p, "apply_answer",
              apply_answer(room[p], clue, answer, allow_clearing, now),
              clue, answer, allow_clearing, now)

ApplyAnswer(p) == ApplyAnswerWith(p, Clues, Answers, Times)

ClearIncorrectCells(p) ==
  /\ pc[p] = "loaded"
  /\ Finish(p, "clear_incorrect_cells",
            [result |-> "room", room |-> clear_incorrect_cells(room[p]),
             clock |-> FALSE],
            <<>>, <<>>, FALSE, NoneTime)

\* play_pause called at a clock reading of the given set
PlayPauseAt(p, times) ==
  /\ pc[p] = "loaded"
  /\ \E now \in times :
       Finish(p, "play_pause", play_pause(room[p], now),
              <<>>, <<>>, FALSE, now)

PlayPause(p) == PlayPauseAt(p, Times)

\* One request at a time: every load-transform-store runs to its end.
Next ==
  \/ GetRoom("p1")
  \/ ApplyAnswer("p1")
  \/ ClearIncorrectCells("p1")
  \/ PlayPause("p1")

Spec == Init /\ [][Next]_vars

(***************************************************************************)
(* Vocabulary of the properties.                                           *)
(***************************************************************************)
\* the snapshot the store holds
Stored == from_json(store)

\* request p takes the step that runs operation op: room[p] is the room the
\* operation was given, room'[p] the in-memory room it leaves, ret'[p] its
\* arguments and outcome
OpStep(p, op) == pc[p] = "loaded" /\ pc'[p] = "idle" /\ ret'[p].op = op

\* the cells of clue (num, direction) as a set of (x, y) coordinates
ClueCells(num, direction) ==
  LET coordinates == get_answer_cells(Puzzle, num, direction)
  IN  {coordinates[i] : i \in 1..Len(coordinates)}

\* the clue number exists in the puzzle for the direction
KnownClue(c) ==
  c.number \in (IF c.direction = "a" THEN Puzzle.across_clues
                                     ELSE Puzzle.down_clues)

\* what parse_clue and parse_answer give for each input of the requests
ParsedClue == [clue \in Clues |-> parse_clue(clue)]

ParsedAnswer == [answer \in Answers |-> parse_answer(answer)]

\* the floor of a difference d of clock readings in seconds
FloorSeconds(d) ==
  CHOOSE q \in (0 - MaxTime - 1)..MaxTime :
    q * TicksPerSec <= d /\ d < (q + 1) * TicksPerSec

(***************************************************************************)
(* C1: in every snapshot, play_pause_state = "complete" implies that the   *)
(* cells equal puzzle.cells cell for cell and last_start_time is absent.   *)
(* The code lets apply_answer write into a complete room, so this fails.   *)
(***************************************************************************)
C1_CompleteImpliesSolved ==
  Stored.play_pause_state = "complete" =>
    /\ Stored.cells = Puzzle.cells
    /\ Stored.last_start_time = NoneTime

(***************************************************************************)
(* C2: in every snapshot, stored or in memory, last_start_time is set if   *)
(* and only if play_pause_state = "playing".                               *)
(***************************************************************************)
TimerConsistent(r) ==
  (r.last_start_time # NoneTime) <=> (r.play_pause_state = "playing")

C2_LastStartIffPlaying ==
  /\ TimerConsistent(Stored)
  /\ \A p \in Procs : TimerConsistent(room[p])

\* an apply_answer has completed the puzzle of a playing room
C2_Witness ==
  \E p \in Procs :
    /\ ret[p].op = "apply_answer" /\ ret[p].result = "room"
    /\ room[p].play_pause_state = "complete"
    /\ Stored = room[p]

(***************************************************************************)
(* C3: a non-rejected apply_answer that leaves the grid equal to           *)
(* puzzle.cells returns a snapshot that is complete, without               *)
(* last_start_time and with total_time_secs increased by the whole seconds *)
(* of now - last_start_time, whatever the state before; otherwise the      *)
(* three fields are unchanged.  The code raises when the timer is not      *)
(* running, so this fails.                                                 *)
(***************************************************************************)
C3_CompletionCheck ==
  [][\A p \in Procs :
       OpStep(p, "apply_answer") /\ ret'[p].result # "None" =>
         IF room'[p].cells = Puzzle.cells
           THEN /\ ret'[p].result = "room"
                /\ room'[p].play_pause_state = "complete"
                /\ room'[p].last_start_time = NoneTime
                /\ room'[p].total_time_secs =
                     room[p].total_time_secs
                       + WholeSeconds(ret'[p].now - room[p].last_start_time)
           ELSE /\ room'[p].play_pause_state = room[p].play_pause_state
                /\ room'[p].last_start_time = room[p].last_start_time
                /\ room'[p].total_time_secs = room[p].total_time_secs]_vars

(***************************************************************************)
(* C4: completion is terminal: once a snapshot is complete, no operation   *)
(* yields a snapshot that is not complete or has last_start_time set.      *)
(***************************************************************************)
CompleteAndStopped(r) ==
  r.play_pause_state = "complete" /\ r.last_start_time = NoneTime

C4_CompleteIsTerminal ==
  [][/\ Stored.play_pause_state = "complete" => CompleteAndStopped(Stored')
     /\ \A p \in Procs, op \in {"apply_answer", "clear_incorrect_cells", "play_pause"} :
          /\ OpStep(p, op)
          /\ room[p].play_pause_state = "complete"
          /\ ret'[p].result = "room"
          => CompleteAndStopped(room'[p])]_vars

\* play_pause has run on a complete room
C4_Witness ==
  \E p \in Procs :
    /\ ret[p].op = "play_pause" /\ ret[p].result = "room"
    /\ room[p].play_pause_state = "complete"
    /\ Stored.play_pause_state = "complete"

(***************************************************************************)
(* C5: every apply_answer either returns the updated snapshot, stored with *)
(* its cell writes, flags and completion check, or returns None with       *)
(* nothing written; it never raises.  The code raises TypeError when the   *)
(* grid is solved while last_start_time is None, so this fails.            *)
(***************************************************************************)
C5_ApplyAnswerAllOrNothing ==
  [][\A p \in Procs :
       OpStep(p, "apply_answer") =>
         \/ /\ ret'[p].result = "room"
            /\ store' = to_json(room'[p])
         \/ /\ ret'[p].result = "None"
            /\ room'[p] = room[p]
            /\ store' = store]_vars

(***************************************************************************)
(* C6: after every apply_answer that is not rejected and after every       *)
(* clear_incorrect_cells, each across and down filled flag is true exactly *)
(* when every cell of that clue is non-blank; the stored snapshot has the  *)
(* same property.                                                          *)
(***************************************************************************)
FlagsMatchCells(r) ==
  /\ DOMAIN r.across_clues_filled = Puzzle.across_clues
  /\ DOMAIN r.down_clues_filled = Puzzle.down_clues
  /\ \A n \in Puzzle.across_clues :
       r.across_clues_filled[n] =
         (\A c \in ClueCells(n, "a") : r.cells[c[2]][c[1]] # <<>>)
  /\ \A n \in Puzzle.down_clues :
       r.down_clues_filled[n] =
         (\A c \in ClueCells(n, "d") : r.cells[c[2]][c[1]] # <<>>)

C6_FilledFlagsCorrect ==
  /\ FlagsMatchCells(Stored)
  /\ \A p \in Procs :
       /\ ret[p].op \in {"apply_answer", "clear_incorrect_cells"}
       /\ ret[p].result = "room"
       => FlagsMatchCells(room[p])

\* an across answer has been applied and the down clue it crosses is filled
C6_Witness ==
  \E p \in Procs :
    /\ ret[p].op = "apply_answer" /\ ret[p].result = "room"
    /\ parse_clue(ret[p].clue).direction = "a"
    /\ room[p].down_clues_filled[1]
    /\ room[p].across_clues_filled[1]

(***************************************************************************)
(* C7: apply_answer with a clue reference that parse_clue cannot parse, or *)
(* with an answer whose parsed length differs from the number of cells of  *)
(* the clue, returns None and leaves the snapshot and the stored value as  *)
(* they were.                                                              *)
(***************************************************************************)
C7_RejectionWithoutMutation ==
  [][\A p \in Procs :
       /\ OpStep(p, "apply_answer")
       /\ LET c == ParsedClue[ret'[p].clue]
          IN  \/ ~c.ok
              \/ Len(ParsedAnswer[ret'[p].answer])
                   # Cardinality(ClueCells(c.number, c.direction))
       => /\ ret'[p].result = "None"
          /\ room'[p] = room[p]
          /\ store' = store]_vars

\* an answer of the wrong length for an existing clue has been rejected on
\* a room that already holds letters
C7_Witness ==
  \E p \in Procs :
    LET c == parse_clue(ret[p].clue) IN
    /\ ret[p].op = "apply_answer" /\ ret[p].result = "None"
    /\ c.ok /\ KnownClue(c)
    /\ Len(parse_answer(ret[p].answer)) # 0
    /\ Len(parse_answer(ret[p].answer))
         # Cardinality(ClueCells(c.number, c.direction))
    /\ room[p].cells[0][0] # <<>>

(***************************************************************************)
(* C8: apply_answer with a well-formed clue reference whose number does    *)
(* not exist in the puzzle for that direction is rejected for every answer *)
(* text: it returns None and changes nothing.  The code has no such test:  *)
(* an answer that parses to no cells passes the length test, so this       *)
(* fails.                                                                  *)
(***************************************************************************)
C8_UnknownClueRejected ==
  [][\A p \in Procs :
       /\ OpStep(p, "apply_answer")
       /\ ParsedClue[ret'[p].clue].ok
       /\ ~KnownClue(ParsedClue[ret'[p].clue])
       => /\ ret'[p].result = "None"
          /\ room'[p] = room[p]
          /\ store' = store]_vars

(***************************************************************************)
(* C9: after a non-rejected apply_answer with parsed values v_1..v_k on    *)
(* the clue cells c_1..c_k, cell c_i holds v_i if allow_clearing is true   *)
(* or v_i is non-empty and its previous content otherwise, and every other *)
(* cell keeps its previous content.                                        *)
(***************************************************************************)
ExpectedCell(old, values, coordinates, allow_clearing, x, y) ==
  LET hits == {i \in 1..Len(coordinates) : coordinates[i] = <<x, y>>}
  IN  IF hits = {} THEN old[y][x]
      ELSE LET i == CHOOSE i \in hits : TRUE
           IN  IF allow_clearing \/ values[i] # <<>> THEN values[i]
                                                     ELSE old[y][x]

ExpectedCells(old, clue, answer, allow_clearing) ==
  LET c           == ParsedClue[clue]
      values      == ParsedAnswer[answer]
      coordinates == get_answer_cells(Puzzle, c.number, c.direction)
  IN  [y \in 0..(Puzzle.rows - 1) |->
        [x \in 0..(Puzzle.cols - 1) |->
           ExpectedCell(old, values, coordinates, allow_clearing, x, y)]]

C9_CellWrites ==
  [][\A p \in Procs :
       OpStep(p, "apply_answer") /\ ret'[p].result = "room" =>
         /\ room'[p].cells =
              ExpectedCells(room[p].cells, ret'[p].clue, ret'[p].answer,
                            ret'[p].allow_clearing)
         /\ Stored'.cells = room'[p].cells]_vars

\* an answer with a placeholder has been applied without clearing and the
\* cell under the placeholder still holds a letter
C9_Witness ==
  \E p \in Procs :
    LET c           == parse_clue(ret[p].clue)
        values      == parse_answer(ret[p].answer)
        coordinates == get_answer_cells(Puzzle, c.number, c.direction)
    IN  /\ ret[p].op = "apply_answer" /\ ret[p].result = "room"
        /\ ~ret[p].allow_clearing
        /\ \E i \in 1..Len(values) :
             /\ values[i] = <<>>
             /\ room[p].cells[coordinates[i][2]][coordinates[i][1]] # <<>>

(***************************************************************************)
(* C10, as stated: play_pause takes created and paused to playing with     *)
(* last_start_time = now and total_time_secs unchanged, playing to paused  *)
(* with total_time_secs increased by floor(now - last_start_time) and      *)
(* last_start_time absent, and leaves a complete room as it is; it never   *)
(* changes the cells or the filled flags.  The code truncates toward zero, *)
(* which is not the floor when the clock reading is before the start.      *)
(***************************************************************************)
PlayPauseResult(r, now, elapsed) ==
  CASE r.play_pause_state \in {"created", "paused"} ->
         [r EXCEPT !.play_pause_state = "playing", !.last_start_time = now]
    [] r.play_pause_state = "playing" ->
         [r EXCEPT !.play_pause_state = "paused",
                   !.last_start_time = NoneTime,
                   !.total_time_secs = @ + elapsed]
    [] OTHER -> r

C11_TimerAccounting ==
  /\ Stored.total_time_secs = intervals.secs
  /\ Stored.last_start_time = intervals.open

\* no interval is longer than one second within the bounds: two seconds in
\* a room completed by apply_answer are an interval closed by a pause plus
\* the interval closed by the completion
C11_Witness ==
  \E p \in Procs :
    /\ ret[p].op = "apply_answer" /\ ret[p].result = "room"
    /\ ret[p].now # NoneTime
    /\ Stored = room[p]
    /\ Stored.play_pause_state = "complete"
    /\ Stored.last_start_time = NoneTime
    /\ Stored.total_time_secs = 2
    /\ intervals.secs = 2

(***************************************************************************)
(* C12: total_time_secs never decreases, for every clock reading, and is   *)
(* never negative.  The code adds int(now - last_start_time) as it is, so  *)
(* a reading before last_start_time takes seconds away: this fails.        *)
(***************************************************************************)
C12_TotalNeverDecreases ==
  [][/\ Stored'.total_time_secs >= Stored.total_time_secs
     /\ Stored'.total_time_secs >= 0]_vars

(***************************************************************************)
(* C13: clear_incorrect_cells blanks exactly the cells that are non-blank  *)
(* and differ from the solution, leaves every other cell as it was, and    *)
(* never changes play_pause_state, last_start_time or total_time_secs.     *)
(***************************************************************************)
IsIncorrect(cells, x, y) ==
  /\ Puzzle.cells[y][x] # NoneCell
  /\ cells[y][x] # <<>>
  /\ cells[y][x] # Puzzle.cells[y][x]

C13_ClearIncorrectFrame ==
  [][\A p \in Procs :
       OpStep(p, "clear_incorrect_cells") =>
         /\ ret'[p].result = "room"
         /\ \A y \in 0..(Puzzle.rows - 1), x \in 0..(Puzzle.cols - 1) :
              room'[p].cells[y][x] =
                IF IsIncorrect(room[p].cells, x, y) THEN <<>>
                                                    ELSE room[p].cells[y][x]
         /\ room'[p].play_pause_state = room[p].play_pause_state
         /\ room'[p].last_start_time = room[p].last_start_time
         /\ room'[p].total_time_secs = room[p].total_time_secs
         /\ Stored' = room'[p]]_vars

\* clear_incorrect_cells has run on a playing room and has left a correct
\* letter beside a blank cell
C13_Witness ==
  \E p \in Procs :
    /\ ret[p].op = "clear_incorrect_cells" /\ ret[p].result = "room"
    /\ room[p].play_pause_state = "playing"
    /\ room[p].cells[0][0] = Puzzle.cells[0][0]
    /\ room[p].cells[0][1] = <<>>
    /\ ~room[p].across_clues_filled[1]

(***************************************************************************)
(* C14: clear_incorrect_cells is idempotent: applied to the room that one  *)
(* application has produced, it gives the same cells and the same filled   *)
(* flags.                                                                  *)
(***************************************************************************)
C14_ClearIncorrectIdempotent ==
  \A p \in Procs :
    ret[p].op = "clear_incorrect_cells" =>
      LET again == clear_incorrect_cells(room[p])
      IN  /\ again.cells = room[p].cells
          /\ again.across_clues_filled = room[p].across_clues_filled
          /\ again.down_clues_filled = room[p].down_clues_filled

\* clear_incorrect_cells has produced a room with a correct letter under
\* 1-down and nothing at the start of the answer
C14_Witness ==
  \E p \in Procs :
    /\ ret[p].op = "clear_incorrect_cells" /\ ret[p].result = "room"
    /\ room[p].cells[1][0] = Puzzle.cells[1][0]
    /\ room[p].cells[0][0] = <<>>

(***************************************************************************)
(* C19: non-destructive writes: an apply_answer with allow_clearing false  *)
(* never turns a non-blank cell blank, whatever the answer text; and over  *)
(* steps that are such apply_answer calls or play_pause calls, a filled    *)
(* flag that is true never becomes false.                                  *)
(***************************************************************************)
KeepsFilled(old, new) ==
  /\ \A y \in 0..(Puzzle.rows - 1), x \in 0..(Puzzle.cols - 1) :
       old.cells[y][x] # <<>> => new.cells[y][x] # <<>>
  /\ \A n \in Puzzle.across_clues :
       old.across_clues_filled[n] => new.across_clues_filled[n]
  /\ \A n \in Puzzle.down_clues :
       old.down_clues_filled[n] => new.down_clues_filled[n]

C19_NonDestructiveWrites ==
  [][\A p \in Procs :
       \/ OpStep(p, "apply_answer") /\ ~ret'[p].allow_clearing
       \/ OpStep(p, "play_pause")
       => /\ KeepsFilled(room[p], room'[p])
          /\ KeepsFilled(Stored, Stored')]_vars

\* the answer "()A" has been applied to 1-across without clearing and the
\* cell under the empty group still holds its letter
C19_Witness ==
  \E p \in Procs :
    /\ ret[p].op = "apply_answer" /\ ret[p].result = "room"
    /\ ~ret[p].allow_clearing
    /\ ret[p].answer = <<"(", ")", "A">>
    /\ ParsedClue[ret[p].clue].ok
    /\ ParsedClue[ret[p].clue].direction = "a"
    /\ room[p].cells[0][0] # <<>>
    /\ room[p].across_clues_filled[1]

(***************************************************************************)
(* The parsing functions on their own: parse_clue and parse_answer applied *)
(* to every string over a small alphabet, up to a length.                  *)
(***************************************************************************)
MaxClueLen == 4
MaxAnswerLen == 4

ClueChars == {"1", "0", "a", "D", " ", "-", "x"}

AnswerChars == {"A", "B", " ", ".", "(", ")"}

Strings(chars, n) == UNION {[1..k -> chars] : k \in 0..n}

InitParse ==
  /\ InitRoom
  /\ input \in
       {[fn |-> "parse_clue", text |-> t] : t \in Strings(ClueChars, MaxClueLen)}
         \cup
       {[fn |-> "parse_answer", text |-> t] :
          t \in Strings(AnswerChars, MaxAnswerLen)}
  /\ output = NoOutput

ParseClue ==
  /\ input.fn = "parse_clue" /\ ~output.done
  /\ output' = [done |-> TRUE, clue |-> parse_clue(input.text), cells |-> <<>>]
  /\ UNCHANGED <<store, room, pc, ret, intervals, input>>

ParseAnswer ==
  /\ input.fn = "parse_answer" /\ ~output.done
  /\ output' = [done |-> TRUE, clue |-> NoClue, cells |-> parse_answer(input.text)]
  /\ UNCHANGED <<store, room, pc, ret, intervals, input>>

NextParse == ParseClue \/ ParseAnswer

SpecParse == InitParse /\ [][NextParse]_vars

(***************************************************************************)
(* C15: parse_clue returns (n, direction) for every string that, stripped  *)
(* of surrounding whitespace, is one or more decimal digits followed by    *)
(* one letter a or d in either case, and (None, None) for every other      *)
(* string.  The code hands the leading part to int(), which also takes a   *)
(* sign and inner whitespace, so this fails.                               *)
(***************************************************************************)
\* the decimal value of a sequence of digits
RECURSIVE Decimal(_)
Decimal(ds) ==
  IF ds = <<>> THEN 0
  ELSE 10 * Decimal(SubSeq(ds, 1, Len(ds) - 1)) + DigitVal(ds[Len(ds)])

\* the clue references of the grammar: blanks, digits, a direction letter, blanks
GrammarClue(text) ==
  LET cores == {ij \in (1..Len(text)) \X (1..Len(text)) :
                  /\ ij[1] < ij[2]
                  /\ \A k \in 1..(ij[1] - 1) : text[k] \in {" ", "\t"}
                  /\ \A k \in (ij[2] + 1)..Len(text) : text[k] \in {" ", "\t"}
                  /\ \A k \in ij[1]..(ij[2] - 1) : IsDigit(text[k])
                  /\ text[ij[2]] \in {"a", "d", "A", "D"}}
  IN  IF cores = {} THEN NoClue
      ELSE LET ij == CHOOSE ij \in cores : TRUE
           IN  [ok |-> TRUE,
                number |-> Decimal(SubSeq(text, ij[1], ij[2] - 1)),
                direction |-> IF text[ij[2]] \in {"a", "A"} THEN "a" ELSE "d"]

C15_ParseClueGrammar ==
  input.fn = "parse_clue" /\ output.done => output.clue = GrammarClue(input.text)

(***************************************************************************)
(* C16: parse_answer returns the sequence of the grammar: whitespace is    *)
(* skipped everywhere; outside a group '.' gives an empty entry and any    *)
(* other character but '(' an entry of that character; '(' opens a group   *)
(* whose characters up to the next ')' are one entry, '.' kept as it is;   *)
(* an unclosed group gives its content as the last entry.  It never fails. *)
(***************************************************************************)
\* the text without its whitespace
RECURSIVE NoSpace(_)
NoSpace(s) ==
  IF s = <<>> THEN <<>>
  ELSE IF Head(s) \in {" ", "\t"} THEN NoSpace(Tail(s))
  ELSE <<Head(s)>> \o NoSpace(Tail(s))

\* the entries of a text without whitespace, one entry at a time
RECURSIVE Entries(_)
Entries(s) ==
  IF s = <<>> THEN <<>>
  ELSE IF Head(s) = "("
    THEN LET rest   == Tail(s)
             closes == {i \in 1..Len(rest) : rest[i] = ")"}
         IN  IF closes = {} THEN <<rest>>
             ELSE LET j == CHOOSE i \in closes : \A k \in closes : i <= k
                  IN  <<SubSeq(rest, 1, j - 1)>>
                        \o Entries(SubSeq(rest, j + 1, Len(rest)))
  ELSE IF Head(s) = "." THEN <<(<<>>)>> \o Entries(Tail(s))
  ELSE <<(<<Head(s)>>)>> \o Entries(Tail(s))

C16_ParseAnswerGrammar ==
  input.fn = "parse_answer" /\ output.done =>
    output.cells = Entries(NoSpace(input.text))

\* "( .B" has been parsed: an unclosed group, whitespace skipped inside it,
\* the '.' kept
C16_Witness ==
  /\ input.fn = "parse_answer" /\ output.done
  /\ input.text = <<"(", " ", ".", "B">>
  /\ output.cells = <<(<<".", "B">>)>>

(***************************************************************************)
(* Requests that interleave: nothing serializes the get_room of one        *)
(* request and the set_room of another on the same room name.  The inputs  *)
(* are a part of those of Spec.                                            *)
(***************************************************************************)
\* clue references "1a", " 1D "
ConcClues == { <<"1", "a">>, <<" ", "1", "D", " ">> }

\* answers "A(AB)" (right for 1a, too long for 1D) and "AB" (right for 1D,
\* wrong in its second cell for 1a)
ConcAnswers == { <<"A", "(", "A", "B", ")">>, <<"A", "B">> }

\* The clock stands still while the requests interleave: the arithmetic of
\* the timer is the subject of Spec.
ConcTimes == {0}

ConcApplyAnswer(p) == ApplyAnswerWith(p, ConcClues, ConcAnswers, ConcTimes)

ConcPlayPause(p) == PlayPauseAt(p, ConcTimes)

NextConc ==
  \E p \in Procs :
    \/ GetRoom(p)
    \/ ConcApplyAnswer(p)
    \/ ClearIncorrectCells(p)
    \/ ConcPlayPause(p)

SpecConc == Init /\ [][NextConc]_vars

(***************************************************************************)
(* C17: the store holds only the snapshot of the request that stored last. *)
(* Whatever the interleaving, a request that stores leaves in the store    *)
(* the room it loaded with its own change applied: the cells, the flags    *)
(* and the timer that its operation does not touch are the ones it loaded, *)
(* not the ones another request stored in between, whose update is lost.   *)
(* When the room it loaded is still the stored one (no interleaving), what *)
(* the operation does not touch is kept from the store: no update is lost. *)
(***************************************************************************)
SameGrid(a, b) ==
  /\ a.cells = b.cells
  /\ a.across_clues_filled = b.across_clues_filled
  /\ a.down_clues_filled = b.down_clues_filled

SameTimer(a, b) ==
  /\ a.play_pause_state = b.play_pause_state
  /\ a.last_start_time = b.last_start_time
  /\ a.total_time_secs = b.total_time_secs

\* what the operation recorded in rt leaves of room `loaded` in room `after`
KeepsUntouched(rt, loaded, after) ==
  /\ rt.op = "play_pause" => SameGrid(after, loaded)
  /\ rt.op = "clear_incorrect_cells" => SameTimer(after, loaded)
  /\ rt.op = "apply_answer" =>
       /\ \A y \in 0..(Puzzle.rows - 1), x \in 0..(Puzzle.cols - 1) :
            <<x, y>> \notin ClueCells(ParsedClue[rt.clue].number,
                                      ParsedClue[rt.clue].direction)
              => after.cells[y][x] = loaded.cells[y][x]
       /\ after.play_pause_state # "complete" => SameTimer(after, loaded)

C17_LastStoreWins ==
  [][\A p \in Procs :
       pc[p] = "loaded" /\ pc'[p] = "idle" =>
         IF ret'[p].result = "room"
           THEN /\ Stored' = room'[p]
                /\ KeepsUntouched(ret'[p], room[p], Stored')
                /\ room[p] = Stored => KeepsUntouched(ret'[p], Stored, Stored')
           ELSE store' = store]_vars

\* p1 and p2 loaded the new room, p1 stored an answer, then p2 stored its
\* play_pause: the store holds the empty grid p2 loaded
C17_Witness ==
  /\ pc = [p \in Procs |-> "idle"]
  /\ ret["p1"].op = "apply_answer" /\ ret["p1"].result = "room"
  /\ ret["p2"].op = "play_pause" /\ ret["p2"].result = "room"
  /\ room["p1"].cells # NewRoom.cells
  /\ Stored = room["p2"]
  /\ Stored.cells = NewRoom.cells
  /\ Stored.play_pause_state = "playing"

(***************************************************************************)
(* C18: at every point of every interleaving of apply_answer,              *)
(* clear_incorrect_cells and play_pause requests, the stored snapshot has, *)
(* for every clue, a filled flag equal to "all cells of the clue are       *)
(* non-blank" computed from the cells of that same stored snapshot.        *)
(***************************************************************************)
C18_StoredFlagsNeverStale ==
  \A direction \in {"a", "d"} :
    LET flags == IF direction = "a" THEN Stored.across_clues_filled
                                    ELSE Stored.down_clues_filled
        nums == IF direction = "a" THEN Puzzle.across_clues
                                   ELSE Puzzle.down_clues
    IN  /\ DOMAIN flags = nums
        /\ \A n \in nums :
             flags[n] <=> \A c \in ClueCells(n, direction) :
                            Stored.cells[c[2]][c[1]] # <<>>

\* p1 stored an answer that fills 1a and 1D, p2 had loaded the room before
\* and stored its clear_incorrect_cells after: the stored grid is the empty
\* one again, with its flags down
C18_Witness ==
  /\ pc = [p \in Procs |-> "idle"]
  /\ ret["p1"].op = "apply_answer" /\ ret["p1"].result = "room"
  /\ room["p1"].across_clues_filled[1]
  /\ ret["p2"].op = "clear_incorrect_cells"
  /\ Stored = room["p2"]
  /\ Stored.cells = NewRoom.cells
  /\ ~Stored.across_clues_filled[1]
  /\ ~Stored.down_clues_filled[1]

(***************************************************************************)
(* C20: once the store holds a snapshot whose play_pause_state is          *)
(* "complete", every snapshot stored later has play_pause_state "complete" *)
(* and cells equal to puzzle.cells, also when requests interleave.         *)
(***************************************************************************)
C20_StoredCompletionStable ==
  [][Stored.play_pause_state = "complete" =>
       /\ Stored'.play_pause_state = "complete"
       /\ Stored'.cells = Puzzle.cells]_vars

=============================================================================
